---- MODULE Spec2Model ----
(***************************************************************************)
(* PixelForge Nexus: the resource store (users, roles, projects,           *)
(* memberships, documents, document versions), the blob store, the         *)
(* row-level access rules and the server actions that read and write them. *)
(*                                                                         *)
(* SpecDoc  : the document server actions (uploadDocument,                 *)
(*            uploadNewVersion, deleteDocument), one step per awaited      *)
(*            store call, run by concurrent requests.                      *)
(* SpecAuth : the user / project / membership actions together with the    *)
(*            document actions of a single request, for the access rules.  *)
(* SpecUsers: the account and role actions (createUser, updateUserRole,    *)
(*            deleteUser) and the re-issue of access tokens.               *)
(* SpecMembers: the membership actions (assignMember, removeMember) and    *)
(*            the project updates, on one project with three accounts.     *)
(* SpecSession: sign-in, sign-out, the TOTP factor and the middleware that *)
(*            answers each request (updateSession).                        *)
(* SpecRules: the evaluation of the row-level rules of a command, with    *)
(*            the nested reads its policies and helper functions make.     *)
(* SpecNavigate: a browser following the middleware's redirects.           *)
(***************************************************************************)
EXTENDS Integers, Sequences, FiniteSets, TLC

\* ------------------------------------------------------------------------
\* Bounds of the model
\* ------------------------------------------------------------------------
MaxCalls == 2          \* concurrent server-action requests (SpecDoc)
MaxDocs == 1           \* document ids ever generated
MaxVersion == 3        \* uploadNewVersion is not started past this version
MaxRequests == 4       \* document requests ever started (SpecDoc)
MaxAuthRequests == 1   \* document requests ever started (SpecAuth)
MaxUserRequests == 3   \* updateUserRole / deleteUser requests ever started

\* ------------------------------------------------------------------------
\* Program constants
\* ------------------------------------------------------------------------
MaxFileSize == 52428800
MinTitleLength == 2

UserIds == {"u1", "u2", "u3"}
Null == "null"
Roles == {"admin", "project_lead", "developer"}
NoRole == "none"
Actions == {"create", "read", "update", "delete"}
Resources == {"projects", "project_members", "documents", "document_versions", "users"}
Statuses == {"active", "completed"}

Calls == 1 .. MaxCalls
DocIds == 1 .. MaxDocs
ProjectIds == {1}
FileNames == {"a", "b"}
FileSizes == {0, 1, MaxFileSize, MaxFileSize + 1}
TitleLengths == {MinTitleLength - 1, MinTitleLength}

VARIABLES
    users,              \* auth.users: the accounts that exist
    user_roles,         \* table user_roles: rows [user_id, role]
    jwt,                \* per user, the user_role claim of the access token held
    projects,           \* table projects, by id
    project_members,    \* table project_members: rows [project_id, user_id, id]
    documents,          \* table documents, by id
    document_versions,  \* table document_versions, in insertion order
    storage,            \* bucket 'documents': the paths that hold an object
    calls,              \* the server-action requests in flight
    started,            \* the number of requests started, of the kinds the model bounds
    response,           \* the outcome last returned by a server action
    createdOk,          \* documents for which uploadDocument returned success
    versionsAdded,      \* per document, the uploadNewVersion calls that returned success
    aal,                \* per user, the assurance level of the session: none, aal1, aal2
    enrolled,           \* the users with a verified TOTP factor
    served,             \* the last request the middleware answered, and its answer
    eval,               \* the stack of the row-level rule evaluation in progress
    nav                 \* a browser following the middleware's redirects

vars == <<users, user_roles, jwt, projects, project_members, documents,
          document_versions, storage, calls, started, response, createdOk, versionsAdded,
          aal, enrolled, served, eval, nav>>

sessionVars == <<aal, enrolled, served>>
authVars == <<users, user_roles, jwt, projects, project_members, sessionVars, eval, nav>>
docVars == <<documents, document_versions, storage>>

\* ------------------------------------------------------------------------
\* Rows
\* ------------------------------------------------------------------------
NoProject == [st |-> "absent", lead_id |-> Null, status |-> "active", created_by |-> Null]
NoDocument == [st |-> "absent", project_id |-> 0, current_version |-> 0, created_by |-> Null]
\* no request answered yet
NoRequest == [user |-> Null, route |-> "", currentLevel |-> "none", nextLevel |-> "none",
              result |-> "none"]
\* nobody is signed in and nobody has a factor
\* no navigation in progress
NoNavigation == [user |-> Null, route |-> "", hops |-> 0, served |-> FALSE]
InitSessions ==
    /\ aal = [u \in UserIds |-> "none"]
    /\ enrolled = {}
    /\ served = NoRequest
    /\ eval = <<>>
    /\ nav = NoNavigation

IdleCall == [pc |-> "idle", actor |-> Null, doc |-> 0, file |-> "", ver |-> 0, paths |-> {}]

\* a server action returns: { success: true } or { error: message }; of the
\* error messages, these are told apart from the others
Reported == {"File size must be less than 50MB", "Upload failed",
             "Only admins can update roles", "You cannot delete your own account",
             "This user is already assigned to this project"}

Respond(message) ==
    response' = IF message = "success" \/ message \in Reported THEN message ELSE "error"

Return(c, message) ==
    /\ calls' = [calls EXCEPT ![c] = IdleCall]
    /\ Respond(message)

ProjectExists(p) == p \in ProjectIds /\ projects[p].st = "live"
DocumentExists(d) == d \in DocIds /\ documents[d].st = "live"

\* `${projectId}/${documentId}/v${version}-${file.name}`
StoragePath(p, d, v, name) == <<p, d, v, name>>

VersionsOf(d) == SelectSeq(document_versions, LAMBDA r : r.document_id = d)
VersionNumbers(d) == {VersionsOf(d)[i].version : i \in 1 .. Len(VersionsOf(d))}
\* upload(..., { upsert: false }) refuses a path that holds an object
OccupiedPaths_None == {}
OccupiedPaths == storage

\* ids are generated fresh: the lowest id never used
FreshDocs == {d \in DocIds : documents[d].st = "absent"}
FreshProjects == {p \in ProjectIds : projects[p].st = "absent"}
Lowest(S) == CHOOSE x \in S : \A y \in S : x <= y

\* ------------------------------------------------------------------------
\* Roles
\* ------------------------------------------------------------------------
RolesOf(u) == {r.role : r \in {x \in user_roles : x.user_id = u}}

\* supabase.from('user_roles').select('role').eq('user_id', user.id).single():
\* data is the row when exactly one row matches, null otherwise
RoleData(u) ==
    IF Cardinality(RolesOf(u)) = 1 THEN CHOOSE r \in RolesOf(u) : TRUE ELSE NoRole

\* auth.jwt() ->> 'user_role': the role claim of the access token that
\* accompanies the request; it was written when the token was issued
JwtRole(u) == jwt[u]

\* ------------------------------------------------------------------------
\* Scope resolution: the SECURITY DEFINER helper functions
\* ------------------------------------------------------------------------
get_my_project_ids(u) == {m.project_id : m \in {x \in project_members : x.user_id = u}}
get_my_led_project_ids(u) == {p \in ProjectIds : ProjectExists(p) /\ projects[p].lead_id = u}
get_my_led_document_ids(u) ==
    {d \in DocIds : DocumentExists(d) /\ documents[d].project_id \in get_my_led_project_ids(u)}

\* ------------------------------------------------------------------------
\* Row-level policies. Policies of one table are permissive: a command on a
\* row passes when one of the table's policies for that command passes.
\* ------------------------------------------------------------------------
\* "Admins have full access" on every table
AdminPolicy(u) == JwtRole(u) = "admin"

\* "Developers can view assigned projects"
DevelopersViewProjects(u, p) == JwtRole(u) = "developer" /\ p \in get_my_project_ids(u)
\* "Project leads can view assigned projects"
LeadsViewAssignedProjects(u, p) == JwtRole(u) = "project_lead" /\ p \in get_my_project_ids(u)
\* project leads on the projects they lead: SELECT and UPDATE
LeadsOwnProjects(u, p) == JwtRole(u) = "project_lead" /\ p \in get_my_led_project_ids(u)

\* "Project leads can manage members of their projects" (FOR ALL)
LeadsManageMembers(u, p) == JwtRole(u) = "project_lead" /\ p \in get_my_led_project_ids(u)
\* "Developers can view members of their projects" (FOR SELECT)
MembersViewMembers(u, p) == p \in get_my_project_ids(u)

\* "Project leads can manage documents of their projects" (FOR ALL)
LeadsManageDocuments(u, p) == p \in get_my_led_project_ids(u)
\* "Members can view documents of their projects" (FOR SELECT)
MembersViewDocuments(u, p) == p \in get_my_project_ids(u)

\* "Project leads can manage versions of their project docs" (FOR ALL)
LeadsManageVersions(u, d) == d \in get_my_led_document_ids(u)
\* "Members can view versions of their project docs" (FOR SELECT)
MembersViewVersions(u, d) ==
    d \in {x \in DocIds : DocumentExists(x) /\ documents[x].project_id \in get_my_project_ids(u)}

\* The decision of the row-level rules for user u, command action, on a row
\* of table resource that belongs to project p (and document d)
RlsAllows(u, action, resource, p, d) ==
    /\ u \in users
    /\ \/ AdminPolicy(u)
       \/ /\ resource = "projects"
          /\ \/ action = "read" /\ (DevelopersViewProjects(u, p) \/ LeadsViewAssignedProjects(u, p))
             \/ action \in {"read", "update"} /\ LeadsOwnProjects(u, p)
       \/ /\ resource = "project_members"
          /\ \/ LeadsManageMembers(u, p)
             \/ action = "read" /\ MembersViewMembers(u, p)
       \/ /\ resource = "documents"
          /\ \/ LeadsManageDocuments(u, p)
             \/ action = "read" /\ MembersViewDocuments(u, p)
       \/ /\ resource = "document_versions"
          /\ \/ LeadsManageVersions(u, d)
             \/ action = "read" /\ MembersViewVersions(u, d)

\* ------------------------------------------------------------------------
\* Input validation of the document actions
\* ------------------------------------------------------------------------
\* uploadDocument: the first check that fails, "" when all pass
UploadDocumentValidation_Exclusive(titleLen, size) ==
    IF size = 0 THEN "Please select a file to upload"
    ELSE IF titleLen < MinTitleLength THEN "Document title must be at least 2 characters"
    ELSE IF size >= MaxFileSize THEN "File size must be less than 50MB"
    ELSE ""
UploadDocumentValidation(titleLen, size) ==
    IF size = 0 THEN "Please select a file to upload"
    ELSE IF titleLen < MinTitleLength THEN "Document title must be at least 2 characters"
    ELSE IF size > MaxFileSize THEN "File size must be less than 50MB"
    ELSE ""

UploadNewVersionValidation(size) ==
    IF size = 0 THEN "Please select a file to upload"
    ELSE IF size > MaxFileSize THEN "File size must be less than 50MB"
    ELSE ""

\* const newVersion = doc.current_version + 1
NewVersion(current_version) == current_version + 1

\* uploadDocument inserts the documents row with current_version: 1
InitialVersion_Two == 1 + 1
InitialVersion == 1

\* ------------------------------------------------------------------------
\* Store writes
\* ------------------------------------------------------------------------
\* DELETE FROM documents WHERE id = d, cascading to document_versions
DeleteDocumentRow(d) ==
    /\ documents' = [documents EXCEPT ![d].st = "deleted"]
    /\ document_versions' = SelectSeq(document_versions, LAMBDA r : r.document_id # d)

VersionRow(d, v, path, name, u) ==
    [document_id |-> d, version |-> v, storage_path |-> path, file_name |-> name,
     uploaded_by |-> u]

\* ------------------------------------------------------------------------
\* uploadDocument(projectId, title, formData)
\* ------------------------------------------------------------------------
\* authentication, validation and the insert of the documents row
UploadDocumentBegin(c, u, p, titleLen, name, size, dbOk) ==
    /\ calls[c].pc = "idle"
    /\ started < MaxRequests
    /\ started' = started + 1
    /\ FreshDocs # {}
    /\ UNCHANGED <<authVars, document_versions, storage, createdOk, versionsAdded>>
    /\ IF u \notin users
       THEN /\ Return(c, "Unauthorized")
            /\ UNCHANGED documents
       ELSE IF UploadDocumentValidation(titleLen, size) # ""
       THEN /\ Return(c, UploadDocumentValidation(titleLen, size))
            /\ UNCHANGED documents
       ELSE IF ~ (dbOk /\ ProjectExists(p) /\ RlsAllows(u, "create", "documents", p, 0))
       THEN /\ Return(c, "docError")
            /\ UNCHANGED documents
       ELSE LET d == Lowest(FreshDocs) IN
            /\ documents' = [documents EXCEPT ![d] =
                   [st |-> "live", project_id |-> p, current_version |-> InitialVersion,
                    created_by |-> u]]
            /\ calls' = [calls EXCEPT ![c] =
                   [pc |-> "ud_inserted", actor |-> u, doc |-> d, file |-> name, ver |-> 1, paths |-> {}]]
            /\ UNCHANGED response

\* supabase.storage.from('documents').upload(storagePath, file, {upsert: false})
UploadDocumentUpload(c, storeOk) ==
    /\ calls[c].pc = "ud_inserted"
    /\ UNCHANGED started
    /\ LET d == calls[c].doc
           path == StoragePath(documents[d].project_id, d, 1, calls[c].file)
       IN IF storeOk /\ path \notin OccupiedPaths
          THEN /\ storage' = storage \cup {path}
               /\ calls' = [calls EXCEPT ![c].pc = "ud_uploaded"]
               /\ UNCHANGED response
          ELSE /\ calls' = [calls EXCEPT ![c].pc = "ud_cleanup"]
               /\ UNCHANGED response
               /\ UNCHANGED storage
    /\ UNCHANGED <<authVars, documents, document_versions, createdOk, versionsAdded>>

\* upload failed: delete the documents row (the outcome is not inspected)
UploadDocumentCleanup(c, dbOk) ==
    /\ calls[c].pc = "ud_cleanup"
    /\ UNCHANGED started
    /\ LET d == calls[c].doc
           u == calls[c].actor
       IN IF dbOk /\ DocumentExists(d) /\ RlsAllows(u, "delete", "documents", documents[d].project_id, d)
          THEN DeleteDocumentRow(d)
          ELSE UNCHANGED <<documents, document_versions>>
    /\ Return(c, "Upload failed")
    /\ UNCHANGED <<authVars, storage, createdOk, versionsAdded>>

\* insert of the version 1 row
UploadDocumentVersion(c, dbOk) ==
    /\ calls[c].pc = "ud_uploaded"
    /\ UNCHANGED started
    /\ LET d == calls[c].doc
           u == calls[c].actor
           path == StoragePath(documents[d].project_id, d, 1, calls[c].file)
       IN IF dbOk /\ DocumentExists(d) /\ RlsAllows(u, "create", "document_versions", documents[d].project_id, d)
          THEN /\ document_versions' =
                     Append(document_versions, VersionRow(d, 1, path, calls[c].file, u))
               /\ createdOk' = createdOk \cup {d}
               /\ Return(c, "success")
          ELSE /\ Return(c, "Version record failed")
               /\ UNCHANGED <<document_versions, createdOk>>
    /\ UNCHANGED <<authVars, documents, storage, versionsAdded>>


\* ------------------------------------------------------------------------
\* uploadNewVersion(documentId, formData)
\* ------------------------------------------------------------------------
\* authentication, validation and the read of the documents row
UploadNewVersionBegin(c, u, d, name, size, dbOk) ==
    /\ calls[c].pc = "idle"
    /\ started < MaxRequests
    /\ started' = started + 1
    /\ documents[d].current_version < MaxVersion
    /\ UNCHANGED <<authVars, docVars, createdOk, versionsAdded>>
    /\ IF u \notin users
       THEN Return(c, "Unauthorized")
       ELSE IF UploadNewVersionValidation(size) # ""
       THEN Return(c, UploadNewVersionValidation(size))
       ELSE IF ~ (dbOk /\ DocumentExists(d)
                  /\ RlsAllows(u, "read", "documents", documents[d].project_id, d))
       THEN Return(c, "Document not found")
       ELSE /\ calls' = [calls EXCEPT ![c] =
                   [pc |-> "nv_fetched", actor |-> u, doc |-> d, file |-> name,
                    ver |-> NewVersion(documents[d].current_version), paths |-> {}]]
            /\ UNCHANGED response

\* supabase.storage.from('documents').upload(storagePath, file, {upsert: false})
UploadNewVersionUpload_PartialWrite(c, storeOk) ==
    /\ calls[c].pc = "nv_fetched"
    /\ UNCHANGED started
    /\ LET d == calls[c].doc
           path == StoragePath(documents[d].project_id, d, calls[c].ver, calls[c].file)
       IN IF storeOk /\ path \notin OccupiedPaths
          THEN /\ storage' = storage \cup {path}
               /\ calls' = [calls EXCEPT ![c].pc = "nv_uploaded"]
               /\ UNCHANGED response
          ELSE /\ Return(c, "Upload failed")
               /\ storage' = storage \cup {path}
    /\ UNCHANGED <<authVars, documents, document_versions, createdOk, versionsAdded>>
UploadNewVersionUpload(c, storeOk) ==
    /\ calls[c].pc = "nv_fetched"
    /\ UNCHANGED started
    /\ LET d == calls[c].doc
           path == StoragePath(documents[d].project_id, d, calls[c].ver, calls[c].file)
       IN IF storeOk /\ path \notin OccupiedPaths
          THEN /\ storage' = storage \cup {path}
               /\ calls' = [calls EXCEPT ![c].pc = "nv_uploaded"]
               /\ UNCHANGED response
          ELSE /\ Return(c, "Upload failed")
               /\ UNCHANGED storage
    /\ UNCHANGED <<authVars, documents, document_versions, createdOk, versionsAdded>>

\* create_document_version: the conditional write on current_version; a
\* caller whose p_version is not current_version + 1 lost the race
VersionConflict_Never(d, p_version) == FALSE
VersionConflict(d, p_version) == documents[d].current_version # p_version - 1

\* create_document_version(p_document_id, p_version, ...): one transaction
\* that inserts the version row and sets documents.current_version
CreateDocumentVersion_InsertOnly(u, d, p_version, path, name) ==
    /\ document_versions' = Append(document_versions, VersionRow(d, p_version, path, name, u))
    /\ UNCHANGED documents
CreateDocumentVersion(u, d, p_version, path, name) ==
    /\ document_versions' = Append(document_versions, VersionRow(d, p_version, path, name, u))
    /\ documents' = [documents EXCEPT ![d].current_version = p_version]

\* supabase.rpc('create_document_version', ...)
UploadNewVersionCommit(c, dbOk) ==
    /\ calls[c].pc = "nv_uploaded"
    /\ UNCHANGED started
    /\ LET d == calls[c].doc
           u == calls[c].actor
           path == StoragePath(documents[d].project_id, d, calls[c].ver, calls[c].file)
       IN IF /\ dbOk
             /\ DocumentExists(d)
             /\ RlsAllows(u, "create", "document_versions", documents[d].project_id, d)
             /\ ~ VersionConflict(d, calls[c].ver)
          THEN /\ CreateDocumentVersion(u, d, calls[c].ver, path, calls[c].file)
               /\ versionsAdded' = [versionsAdded EXCEPT ![d] = @ + 1]
               /\ Return(c, "success")
          ELSE /\ Return(c, "Version creation failed")
               /\ UNCHANGED <<documents, document_versions, versionsAdded>>
    /\ UNCHANGED <<authVars, storage, createdOk>>

\* ------------------------------------------------------------------------
\* deleteDocument(documentId, projectId)
\* ------------------------------------------------------------------------
\* authentication and the read of the version rows' storage paths; an
\* unreadable or empty result skips the removal of the files
DeleteDocumentBegin(c, u, d, dbOk) ==
    /\ calls[c].pc = "idle"
    /\ started < MaxRequests
    /\ started' = started + 1
    /\ documents[d].st # "absent"
    /\ UNCHANGED <<authVars, docVars, createdOk, versionsAdded>>
    /\ IF u \notin users
       THEN Return(c, "Unauthorized")
       ELSE LET rows == VersionsOf(d)
                paths == IF dbOk /\ RlsAllows(u, "read", "document_versions",
                                              documents[d].project_id, d)
                         THEN {rows[i].storage_path : i \in 1 .. Len(rows)}
                         ELSE {}
            IN /\ calls' = [calls EXCEPT ![c] =
                      [pc |-> IF paths = {} THEN "dd_removed" ELSE "dd_read",
                       actor |-> u, doc |-> d, file |-> "", ver |-> 0, paths |-> paths]]
               /\ UNCHANGED response

\* supabase.storage.from('documents').remove(paths): best effort, the
\* outcome is not inspected
DeleteDocumentRemove(c, removed) ==
    /\ calls[c].pc = "dd_read"
    /\ UNCHANGED started
    /\ removed \subseteq calls[c].paths
    /\ storage' = storage \ removed
    /\ calls' = [calls EXCEPT ![c].pc = "dd_removed", ![c].paths = {}]
    /\ UNCHANGED response
    /\ UNCHANGED <<authVars, documents, document_versions, createdOk, versionsAdded>>

\* DELETE FROM documents WHERE id = documentId: a row the caller's policies
\* do not cover is not matched, which is not an error
DeleteDocumentDelete(c, dbOk) ==
    /\ calls[c].pc = "dd_removed"
    /\ UNCHANGED started
    /\ LET d == calls[c].doc
           u == calls[c].actor
       IN IF ~ dbOk
          THEN /\ Return(c, "deleteError")
               /\ UNCHANGED <<documents, document_versions>>
          ELSE /\ Return(c, "success")
               /\ IF DocumentExists(d)
                     /\ RlsAllows(u, "delete", "documents", documents[d].project_id, d)
                  THEN DeleteDocumentRow(d)
                  ELSE UNCHANGED <<documents, document_versions>>
    /\ UNCHANGED <<authVars, storage, createdOk, versionsAdded>>

\* ------------------------------------------------------------------------
\* SpecDoc: concurrent document requests over a seeded store
\* ------------------------------------------------------------------------
\* the seed: an admin, a project lead leading project 1, a developer member
InitDoc ==
    /\ InitSessions
    /\ users = UserIds
    /\ user_roles = {[user_id |-> "u1", role |-> "admin"],
                     [user_id |-> "u2", role |-> "project_lead"],
                     [user_id |-> "u3", role |-> "developer"]}
    /\ projects = [p \in ProjectIds |->
                     IF p = 1 THEN [st |-> "live", lead_id |-> "u2", status |-> "active",
                                    created_by |-> "u1"]
                     ELSE NoProject]
    /\ jwt = [u \in UserIds |-> RoleData(u)]
    /\ project_members = {[project_id |-> 1, user_id |-> "u3", id |-> 1]}
    /\ documents = [d \in DocIds |-> NoDocument]
    /\ document_versions = <<>>
    /\ storage = {}
    /\ calls = [c \in Calls |-> IdleCall]
    /\ started = 0
    /\ response = "none"
    /\ createdOk = {}
    /\ versionsAdded = [d \in DocIds |-> 0]

DocActors == {"u2", "u3", Null}

NextDoc ==
    \/ \E c \in Calls, u \in DocActors, t \in TitleLengths, n \in FileNames,
          s \in FileSizes, ok \in BOOLEAN : UploadDocumentBegin(c, u, 1, t, n, s, ok)
    \/ \E c \in Calls, ok \in BOOLEAN : UploadDocumentUpload(c, ok)
    \/ \E c \in Calls, ok \in BOOLEAN : UploadDocumentCleanup(c, ok)
    \/ \E c \in Calls, ok \in BOOLEAN : UploadDocumentVersion(c, ok)
    \/ \E c \in Calls, u \in DocActors, d \in DocIds, n \in FileNames,
          s \in FileSizes, ok \in BOOLEAN : UploadNewVersionBegin(c, u, d, n, s, ok)
    \/ \E c \in Calls, ok \in BOOLEAN : UploadNewVersionUpload(c, ok)
    \/ \E c \in Calls, ok \in BOOLEAN : UploadNewVersionCommit(c, ok)
    \/ \E c \in Calls, u \in DocActors, d \in DocIds, ok \in BOOLEAN :
          DeleteDocumentBegin(c, u, d, ok)
    \/ \E c \in Calls : \E removed \in SUBSET calls[c].paths : DeleteDocumentRemove(c, removed)
    \/ \E c \in Calls, ok \in BOOLEAN : DeleteDocumentDelete(c, ok)

SpecDoc == InitDoc /\ [][NextDoc]_vars
\* ------------------------------------------------------------------------
\* Reading projects (projects.ts): the rows are fetched with the service
\* client and filtered by the action itself
\* ------------------------------------------------------------------------
\* const userRole = roleData?.role || 'developer'
UserRole(u) == IF RoleData(u) = NoRole THEN "developer" ELSE RoleData(u)

IsMember(u, p) == \E m \in project_members : m.project_id = p /\ m.user_id = u

\* getProject(projectId): "data" when the project is returned
GetProject_MembersOnly(u, p) ==
    IF u \notin users THEN "Unauthorized"
    ELSE IF ~ ProjectExists(p) THEN "Project not found"
    ELSE IF UserRole(u) = "admin" THEN "data"
    ELSE IF IsMember(u, p) THEN "data"
    ELSE "Access denied"
GetProject(u, p) ==
    IF u \notin users THEN "Unauthorized"
    ELSE IF ~ ProjectExists(p) THEN "Project not found"
    ELSE IF UserRole(u) = "admin" THEN "data"
    ELSE IF projects[p].lead_id = u THEN "data"
    ELSE IF IsMember(u, p) THEN "data"
    ELSE "Access denied"

\* getProjects(): the ids of the projects returned
\* the filter of getProjects over the rows ps of projects and ms of
\* project_members that the service client returned
GetProjectsIn_Unfiltered(u, ps, ms) ==
    IF u \notin users THEN {}
    ELSE {p \in DOMAIN ps : ps[p].st = "live"}
GetProjectsIn(u, ps, ms) ==
    IF u \notin users THEN {}
    ELSE IF UserRole(u) = "admin" THEN {p \in DOMAIN ps : ps[p].st = "live"}
    ELSE {p \in DOMAIN ps :
            /\ ps[p].st = "live"
            /\ \/ ps[p].lead_id = u
               \/ \E m \in ms : m.project_id = p /\ m.user_id = u}

GetProjects(u) == GetProjectsIn(u, projects, project_members)

\* getProjectDocuments(projectId): the documents of the project that the
\* caller's row-level rules let through
GetProjectDocuments(u, p) ==
    {d \in DocIds : /\ DocumentExists(d)
                    /\ documents[d].project_id = p
                    /\ RlsAllows(u, "read", "documents", p, d)}

\* the version rows nested in a listed document
GetDocumentVersions(u, d) ==
    IF DocumentExists(d) /\ RlsAllows(u, "read", "document_versions", documents[d].project_id, d)
    THEN VersionNumbers(d) ELSE {}

\* getUsers(): the profiles and roles are read with the service client
GetUsers(u) == users

\* ------------------------------------------------------------------------
\* getDocumentDownloadUrl(storagePath)
\* ------------------------------------------------------------------------
\* the SELECT policy of the documents bucket: an admin, or a user who leads
\* or is assigned to the project named by the first folder of the path
StorageReadPolicy(u, path) ==
    /\ u \in users
    /\ \/ AdminPolicy(u)
       \/ path[1] \in get_my_led_project_ids(u) \cup get_my_project_ids(u)

\* createSignedUrl(storagePath, 3600) with the caller's client: "url" when
\* the object exists and the caller may read it. The action has no step of
\* its own before it and changes nothing.
GetDocumentDownloadUrl(u, path) ==
    IF path \in storage /\ StorageReadPolicy(u, path) THEN "url" ELSE "error"

\* ------------------------------------------------------------------------
\* The decision the program takes for user u on (action, resource) in
\* project p / document d: the guard of the server action where it has one,
\* the row-level rules otherwise
\* ------------------------------------------------------------------------
Decide(u, action, resource, p, d) ==
    IF resource = "projects" /\ action = "read" THEN GetProject(u, p) = "data"
    ELSE IF resource = "users" /\ action = "read" THEN GetUsers(u) # {}
    ELSE IF resource = "users" THEN u \in users /\ RoleData(u) = "admin"
    ELSE RlsAllows(u, action, resource, p, d)

\* ------------------------------------------------------------------------
\* createUser(formData) (users.ts)
\* ------------------------------------------------------------------------
UserOrder == <<"u1", "u2", "u3">>
FreshUser == UserOrder[Lowest({i \in 1 .. Len(UserOrder) : UserOrder[i] \notin users})]

CreateUser(caller, role, valid, createOk, roleOk) ==
    /\ UNCHANGED <<sessionVars, eval, nav>>
    /\ users # UserIds
    /\ UNCHANGED <<projects, project_members, docVars, calls, started, createdOk, versionsAdded>>
    /\ IF ~ valid
       THEN Respond("invalid input") /\ UNCHANGED <<users, user_roles, jwt>>
       ELSE IF caller \notin users
       THEN Respond("Unauthorized") /\ UNCHANGED <<users, user_roles, jwt>>
       ELSE IF RoleData(caller) # "admin"
       THEN Respond("Only admins can create users") /\ UNCHANGED <<users, user_roles, jwt>>
       ELSE IF ~ createOk
       THEN Respond("createError") /\ UNCHANGED <<users, user_roles, jwt>>
       ELSE /\ users' = users \cup {FreshUser}
            /\ IF roleOk
               THEN /\ user_roles' = user_roles \cup {[user_id |-> FreshUser, role |-> role]}
                    /\ jwt' = [jwt EXCEPT ![FreshUser] = role]
                    /\ Respond("success")
               ELSE /\ UNCHANGED user_roles
                    /\ jwt' = [jwt EXCEPT ![FreshUser] = NoRole]
                    /\ Respond("User created but failed to assign role")

\* ------------------------------------------------------------------------
\* updateUserRole(formData) (users.ts)
\* ------------------------------------------------------------------------
RoleRowsOf(u) == {x \in user_roles : x.user_id = u}

\* upsert({user_id, role}, {onConflict: 'user_id,role'}): a row with the same
\* user_id and role is the conflict and is kept; any other row is inserted
UpsertRole(target, role) == user_roles \cup {[user_id |-> target, role |-> role]}

\* the upsert; when it reports an error, delete the target's rows and insert
\* the new one. A row for a user_id that is no account is refused.
UpdateUserRole_AnyCaller(caller, target, role, valid, upsertOk, deleteOk, insertOk) ==
    /\ UNCHANGED <<sessionVars, eval, nav>>
    /\ started < MaxUserRequests
    /\ started' = started + 1
    /\ UNCHANGED <<users, jwt, projects, project_members, docVars, calls,
                   createdOk, versionsAdded>>
    /\ IF ~ valid
       THEN Respond("invalid input") /\ UNCHANGED user_roles
       ELSE IF caller \notin users
       THEN Respond("Unauthorized") /\ UNCHANGED user_roles
       ELSE IF upsertOk /\ target \in users
       THEN /\ user_roles' = UpsertRole(target, role)
            /\ Respond("success")
       ELSE IF ~ deleteOk
       THEN Respond("deleteError") /\ UNCHANGED user_roles
       ELSE IF insertOk /\ target \in users
       THEN /\ user_roles' = (user_roles \ RoleRowsOf(target))
                                 \cup {[user_id |-> target, role |-> role]}
            /\ Respond("success")
       ELSE /\ user_roles' = user_roles \ RoleRowsOf(target)
            /\ Respond("insertError")
UpdateUserRole(caller, target, role, valid, upsertOk, deleteOk, insertOk) ==
    /\ UNCHANGED <<sessionVars, eval, nav>>
    /\ started < MaxUserRequests
    /\ started' = started + 1
    /\ UNCHANGED <<users, jwt, projects, project_members, docVars, calls,
                   createdOk, versionsAdded>>
    /\ IF ~ valid
       THEN Respond("invalid input") /\ UNCHANGED user_roles
       ELSE IF caller \notin users
       THEN Respond("Unauthorized") /\ UNCHANGED user_roles
       ELSE IF RoleData(caller) # "admin"
       THEN Respond("Only admins can update roles") /\ UNCHANGED user_roles
       ELSE IF upsertOk /\ target \in users
       THEN /\ user_roles' = UpsertRole(target, role)
            /\ Respond("success")
       ELSE IF ~ deleteOk
       THEN Respond("deleteError") /\ UNCHANGED user_roles
       ELSE IF insertOk /\ target \in users
       THEN /\ user_roles' = (user_roles \ RoleRowsOf(target))
                                 \cup {[user_id |-> target, role |-> role]}
            /\ Respond("success")
       ELSE /\ user_roles' = user_roles \ RoleRowsOf(target)
            /\ Respond("insertError")

\* ------------------------------------------------------------------------
\* deleteUser(userId) (users.ts)
\* ------------------------------------------------------------------------
\* auth.admin.deleteUser(userId): the account goes, and with it its
\* user_roles and project_members rows; a project it led is left without
\* lead; its access token is no longer accepted by auth.getUser()
DeleteUserRow(target) ==
    /\ users' = users \ {target}
    /\ jwt' = [jwt EXCEPT ![target] = NoRole]
    /\ user_roles' = user_roles \ RoleRowsOf(target)
    /\ project_members' = {m \in project_members : m.user_id # target}
    /\ projects' = [p \in ProjectIds |->
                      IF projects[p].lead_id = target
                      THEN [projects[p] EXCEPT !.lead_id = Null] ELSE projects[p]]

DeleteUser_NoSelfGuard(caller, target, ok) ==
    /\ UNCHANGED <<sessionVars, eval, nav>>
    /\ started < MaxUserRequests
    /\ started' = started + 1
    /\ UNCHANGED <<docVars, calls, createdOk, versionsAdded>>
    /\ IF caller \notin users
       THEN Respond("Unauthorized") /\ UNCHANGED <<users, user_roles, jwt, projects, project_members>>
       ELSE IF RoleData(caller) # "admin"
       THEN /\ Respond("Only admins can delete users")
            /\ UNCHANGED <<users, user_roles, jwt, projects, project_members>>
       ELSE IF ~ (ok /\ target \in users)
       THEN Respond("deleteError") /\ UNCHANGED <<users, user_roles, jwt, projects, project_members>>
       ELSE DeleteUserRow(target) /\ Respond("success")
DeleteUser(caller, target, ok) ==
    /\ UNCHANGED <<sessionVars, eval, nav>>
    /\ started < MaxUserRequests
    /\ started' = started + 1
    /\ UNCHANGED <<docVars, calls, createdOk, versionsAdded>>
    /\ IF caller \notin users
       THEN Respond("Unauthorized") /\ UNCHANGED <<users, user_roles, jwt, projects, project_members>>
       ELSE IF RoleData(caller) # "admin"
       THEN /\ Respond("Only admins can delete users")
            /\ UNCHANGED <<users, user_roles, jwt, projects, project_members>>
       ELSE IF target = caller
       THEN /\ Respond("You cannot delete your own account")
            /\ UNCHANGED <<users, user_roles, jwt, projects, project_members>>
       ELSE IF ~ (ok /\ target \in users)
       THEN Respond("deleteError") /\ UNCHANGED <<users, user_roles, jwt, projects, project_members>>
       ELSE DeleteUserRow(target) /\ Respond("success")

\* ------------------------------------------------------------------------
\* The access token of a session is issued again (sign-in, refresh): the
\* access-token hook writes a role of the user into the user_role claim
\* ------------------------------------------------------------------------
RefreshToken(u, role) ==
    /\ UNCHANGED <<sessionVars, eval, nav>>
    /\ u \in users
    /\ role \in (IF RolesOf(u) = {} THEN {NoRole} ELSE RolesOf(u))
    /\ jwt' = [jwt EXCEPT ![u] = role]
    /\ UNCHANGED <<users, user_roles, projects, project_members, docVars, calls, started,
                   response, createdOk, versionsAdded>>

\* ------------------------------------------------------------------------
\* createProject / updateProject / deleteProject (projects.ts)
\* ------------------------------------------------------------------------
\* lead is Null for a missing or empty lead_id
CreateProject(caller, lead, valid, dbOk) ==
    /\ UNCHANGED <<sessionVars, eval, nav>>
    /\ FreshProjects # {}
    /\ lead \in users \cup {Null}
    /\ UNCHANGED <<users, user_roles, jwt, project_members, docVars, calls, started,
                   createdOk, versionsAdded>>
    /\ IF ~ valid
       THEN Respond("invalid input") /\ UNCHANGED projects
       ELSE IF caller \notin users
       THEN Respond("Unauthorized") /\ UNCHANGED projects
       ELSE IF ~ (dbOk /\ RlsAllows(caller, "create", "projects", Lowest(FreshProjects), 0))
       THEN Respond("insertError") /\ UNCHANGED projects
       ELSE /\ projects' = [projects EXCEPT ![Lowest(FreshProjects)] =
                   [st |-> "live", lead_id |-> lead, status |-> "active", created_by |-> caller]]
            /\ Respond("success")

\* formData carries an optional status ("" when absent) and an optional
\* lead_id (setLead says whether it is present; "" or null clears the lead).
\* An UPDATE whose row the caller's policies do not cover matches no row,
\* which is not an error.
UpdateProject(caller, p, status, setLead, lead, dbOk) ==
    /\ UNCHANGED <<sessionVars, eval, nav>>
    /\ projects[p].st # "absent"
    /\ status \in Statuses \cup {""}
    /\ lead \in users \cup {Null}
    /\ UNCHANGED <<users, user_roles, jwt, project_members, docVars, calls, started,
                   createdOk, versionsAdded>>
    /\ IF caller \notin users
       THEN Respond("Unauthorized") /\ UNCHANGED projects
       ELSE IF ~ dbOk
       THEN Respond("updateError") /\ UNCHANGED projects
       ELSE /\ Respond("success")
            /\ IF ProjectExists(p) /\ RlsAllows(caller, "update", "projects", p, 0)
               THEN projects' = [projects EXCEPT
                        ![p].status = IF status # "" THEN status ELSE @,
                        ![p].lead_id = IF setLead THEN lead ELSE @]
               ELSE UNCHANGED projects

\* DELETE FROM projects WHERE id = p, cascading to project_members,
\* documents and document_versions
DeleteProjectRow(p) ==
    /\ projects' = [projects EXCEPT ![p].st = "deleted"]
    /\ project_members' = {m \in project_members : m.project_id # p}
    /\ documents' = [d \in DocIds |->
                       IF documents[d].st = "live" /\ documents[d].project_id = p
                       THEN [documents[d] EXCEPT !.st = "deleted"] ELSE documents[d]]
    /\ document_versions' = SelectSeq(document_versions,
                                LAMBDA r : documents[r.document_id].project_id # p)

DeleteProject(caller, p, dbOk) ==
    /\ UNCHANGED <<sessionVars, eval, nav>>
    /\ projects[p].st # "absent"
    /\ UNCHANGED <<users, user_roles, jwt, storage, calls, started, createdOk, versionsAdded>>
    /\ IF caller \notin users
       THEN Respond("Unauthorized") /\ UNCHANGED <<projects, project_members, documents, document_versions>>
       ELSE IF ~ dbOk
       THEN Respond("deleteError") /\ UNCHANGED <<projects, project_members, documents, document_versions>>
       ELSE /\ Respond("success")
            /\ IF ProjectExists(p) /\ RlsAllows(caller, "delete", "projects", p, 0)
               THEN DeleteProjectRow(p)
               ELSE UNCHANGED <<projects, project_members, documents, document_versions>>

\* ------------------------------------------------------------------------
\* assignMember / removeMember
\* ------------------------------------------------------------------------
\* the unique constraint of project_members on (project_id, user_id): the
\* INSERT of a pair that has a row fails with code 23505
MembershipConflict_Never(p, target) == FALSE
MembershipConflict(p, target) == IsMember(target, p)

\* a project_members row; id tells the rows of one pair apart (the rank of
\* the row among them stands for the generated key)
MemberRow(p, target) ==
    [project_id |-> p, user_id |-> target,
     id |-> Cardinality({m \in project_members : m.project_id = p /\ m.user_id = target}) + 1]

AssignMember(caller, p, target, dbOk) ==
    /\ UNCHANGED <<sessionVars, eval, nav>>
    /\ target \in users
    /\ projects[p].st # "absent"
    /\ UNCHANGED <<users, user_roles, jwt, projects, docVars, calls, started, createdOk, versionsAdded>>
    /\ IF caller \notin users
       THEN Respond("Unauthorized") /\ UNCHANGED project_members
       ELSE IF ~ (dbOk /\ ProjectExists(p) /\ RlsAllows(caller, "create", "project_members", p, 0))
       THEN Respond("insertError") /\ UNCHANGED project_members
       ELSE IF MembershipConflict(p, target)
       THEN Respond("This user is already assigned to this project") /\ UNCHANGED project_members
       ELSE /\ project_members' = project_members \cup {MemberRow(p, target)}
            /\ Respond("success")

RemoveMember(caller, p, target, dbOk) ==
    /\ UNCHANGED <<sessionVars, eval, nav>>
    /\ target \in users
    /\ projects[p].st # "absent"
    /\ UNCHANGED <<users, user_roles, jwt, projects, docVars, calls, started, createdOk, versionsAdded>>
    /\ IF caller \notin users
       THEN Respond("Unauthorized") /\ UNCHANGED project_members
       ELSE IF ~ dbOk
       THEN Respond("deleteError") /\ UNCHANGED project_members
       ELSE /\ Respond("success")
            /\ IF RlsAllows(caller, "delete", "project_members", p, 0)
               THEN project_members' =
                        {m \in project_members : ~ (m.project_id = p /\ m.user_id = target)}
               ELSE UNCHANGED project_members

\* ------------------------------------------------------------------------
\* SpecAuth: users, projects and memberships change; one document request
\* at a time
\* ------------------------------------------------------------------------
\* the seed: one admin
InitAuth ==
    /\ InitSessions
    /\ users = {"u1"}
    /\ user_roles = {[user_id |-> "u1", role |-> "admin"]}
    /\ jwt = [u \in UserIds |-> RoleData(u)]
    /\ projects = [p \in ProjectIds |-> NoProject]
    /\ project_members = {}
    /\ documents = [d \in DocIds |-> NoDocument]
    /\ document_versions = <<>>
    /\ storage = {}
    /\ calls = [c \in Calls |-> IdleCall]
    /\ started = 0
    /\ response = "none"
    /\ createdOk = {}
    /\ versionsAdded = [d \in DocIds |-> 0]

Callers == UserIds
\* the outcomes of the store calls of one action: all succeed, or one fails
Faults == {<<TRUE, TRUE, TRUE>>, <<FALSE, TRUE, TRUE>>, <<TRUE, FALSE, TRUE>>, <<TRUE, TRUE, FALSE>>}

NextAuth ==
    \/ \E u \in Callers, r \in Roles, f \in Faults : CreateUser(u, r, f[1], f[2], f[3])
    \/ \E u \in Callers, l \in UserIds \cup {Null}, f \in Faults :
          f[3] /\ CreateProject(u, l, f[1], f[2])
    \/ \E u \in Callers, p \in ProjectIds, s \in Statuses, ok \in BOOLEAN :
          UpdateProject(u, p, s, FALSE, Null, ok)
    \/ \E u \in Callers, p \in ProjectIds, l \in UserIds \cup {Null} :
          UpdateProject(u, p, "", TRUE, l, TRUE)
    \/ \E u \in Callers, p \in ProjectIds, ok \in BOOLEAN : DeleteProject(u, p, ok)
    \/ \E u \in Callers, p \in ProjectIds, t \in UserIds, ok \in BOOLEAN : AssignMember(u, p, t, ok)
    \/ \E u \in Callers, p \in ProjectIds, t \in UserIds, ok \in BOOLEAN : RemoveMember(u, p, t, ok)
    \/ \E u \in Callers, p \in ProjectIds :
          started < MaxAuthRequests /\ UploadDocumentBegin(1, u, p, MinTitleLength, "a", 1, TRUE)
    \/ UploadDocumentUpload(1, TRUE)
    \/ UploadDocumentVersion(1, TRUE)

SpecAuth == InitAuth /\ [][NextAuth]_vars

\* ------------------------------------------------------------------------
\* SpecMembers: the memberships of one project change under an admin, a
\* lead and a developer; every request is one statement of the store, so
\* concurrent requests are interleavings of these steps
\* ------------------------------------------------------------------------
InitMembers ==
    /\ InitSessions
    /\ users = UserIds
    /\ user_roles = {[user_id |-> "u1", role |-> "admin"],
                     [user_id |-> "u2", role |-> "project_lead"],
                     [user_id |-> "u3", role |-> "developer"]}
    /\ jwt = [u \in UserIds |-> RoleData(u)]
    /\ projects = [p \in ProjectIds |->
                     [st |-> "live", lead_id |-> "u2", status |-> "active", created_by |-> "u1"]]
    /\ project_members = {}
    /\ documents = [d \in DocIds |-> NoDocument]
    /\ document_versions = <<>>
    /\ storage = {}
    /\ calls = [c \in Calls |-> IdleCall]
    /\ started = 0
    /\ response = "none"
    /\ createdOk = {}
    /\ versionsAdded = [d \in DocIds |-> 0]

NextMembers ==
    \/ \E u \in Callers \cup {Null}, p \in ProjectIds, t \in UserIds, ok \in BOOLEAN :
          AssignMember(u, p, t, ok)
    \/ \E u \in Callers \cup {Null}, p \in ProjectIds, t \in UserIds, ok \in BOOLEAN :
          RemoveMember(u, p, t, ok)
    \/ \E u \in Callers, p \in ProjectIds, s \in Statuses : UpdateProject(u, p, s, FALSE, Null, TRUE)
    \/ \E u \in Callers, p \in ProjectIds, l \in UserIds \cup {Null} :
          UpdateProject(u, p, "", TRUE, l, TRUE)
    \/ \E u \in Callers, p \in ProjectIds : DeleteProject(u, p, TRUE)

SpecMembers == InitMembers /\ [][NextMembers]_vars

\* ------------------------------------------------------------------------
\* Sessions: signIn, signOut, verifyMfa (auth.ts), the MFA settings
\* (settings/page.tsx) and the middleware (updateSession)
\* ------------------------------------------------------------------------
Routes == {"/login", "/auth/callback", "/mfa-verify", "/dashboard"}
publicRoutes == {"/login", "/auth/callback"}
\* the routes that need a session, the MFA page excepted
ProtectedRoutes == Routes \ (publicRoutes \cup {"/mfa-verify"})

\* getAuthenticatorAssuranceLevel(): the level the session has and the level
\* it can reach (aal2 when the user has a verified factor)
CurrentLevel(u) == aal[u]
NextLevel(u) == IF u \in enrolled THEN "aal2" ELSE "aal1"

\* signIn(formData): a sign-in that succeeds starts a session at aal1
SignIn(u, ok) ==
    /\ u \in users
    /\ IF ok
       THEN aal' = [aal EXCEPT ![u] = "aal1"] /\ Respond("success")
       ELSE UNCHANGED aal /\ Respond("Invalid email or password")
    /\ UNCHANGED <<users, user_roles, jwt, projects, project_members, docVars, calls, started,
                   createdOk, versionsAdded, enrolled, served, eval, nav>>

\* signOut()
SignOut(u) ==
    /\ aal[u] # "none"
    /\ aal' = [aal EXCEPT ![u] = "none"]
    /\ Respond("success")
    /\ UNCHANGED <<users, user_roles, jwt, projects, project_members, docVars, calls, started,
                   createdOk, versionsAdded, enrolled, served, eval, nav>>

\* verifyMfa(code): challenge and verify the first TOTP factor; a verified
\* code raises the session to aal2
VerifyMfa(u, codeOk) ==
    /\ aal[u] # "none"
    /\ IF u \notin enrolled
       THEN UNCHANGED aal /\ Respond("No MFA factor found")
       ELSE IF ~ codeOk
       THEN UNCHANGED aal /\ Respond("Invalid verification code. Please try again.")
       ELSE aal' = [aal EXCEPT ![u] = "aal2"] /\ Respond("success")
    /\ UNCHANGED <<users, user_roles, jwt, projects, project_members, docVars, calls, started,
                   createdOk, versionsAdded, enrolled, served, eval, nav>>

\* handleEnrollMfa, handleVerifyMfa: enrol a TOTP factor and verify its
\* first code; the factor counts once verified, and the session that
\* verified it is at aal2
EnrollMfa(u, codeOk) ==
    /\ aal[u] # "none"
    /\ u \notin enrolled
    /\ IF codeOk
       THEN enrolled' = enrolled \cup {u} /\ aal' = [aal EXCEPT ![u] = "aal2"]
       ELSE UNCHANGED <<enrolled, aal>>
    /\ UNCHANGED <<users, user_roles, jwt, projects, project_members, docVars, calls, started,
                   response, createdOk, versionsAdded, served, eval, nav>>

\* handleDisableMfa: unenrol the factor and refresh the session
DisableMfa(u, ok) ==
    /\ aal[u] # "none"
    /\ u \in enrolled
    /\ IF ok
       THEN enrolled' = enrolled \ {u} /\ aal' = [aal EXCEPT ![u] = "aal1"]
       ELSE UNCHANGED <<enrolled, aal>>
    /\ UNCHANGED <<users, user_roles, jwt, projects, project_members, docVars, calls, started,
                   response, createdOk, versionsAdded, served, eval, nav>>

\* updateSession(request): user is the user of the request (Null without a
\* session), aalOk says whether the assurance-level lookup returned data.
\* The answer is a redirect or "next" (the route is served).
updateSession_MfaPageAlways(user, route, aalOk, currentLevel, nextLevel) ==
    IF user = Null /\ route \notin publicRoutes THEN "/login"
    ELSE IF user # Null /\ route = "/login" THEN "/dashboard"
    ELSE IF /\ user # Null /\ route \notin publicRoutes /\ route # "/mfa-verify"
            /\ aalOk /\ nextLevel = "aal2" /\ currentLevel # "aal2"
    THEN "/mfa-verify"
    ELSE IF user # Null /\ route = "/mfa-verify" /\ aalOk
    THEN "/dashboard"
    ELSE "next"
updateSession(user, route, aalOk, currentLevel, nextLevel) ==
    IF user = Null /\ route \notin publicRoutes THEN "/login"
    ELSE IF user # Null /\ route = "/login" THEN "/dashboard"
    ELSE IF /\ user # Null /\ route \notin publicRoutes /\ route # "/mfa-verify"
            /\ aalOk /\ nextLevel = "aal2" /\ currentLevel # "aal2"
    THEN "/mfa-verify"
    ELSE IF /\ user # Null /\ route = "/mfa-verify"
            /\ aalOk /\ (nextLevel = "aal1" \/ currentLevel = "aal2")
    THEN "/dashboard"
    ELSE "next"

\* a request of u's browser (Null: a browser without cookies) for a route
Request(u, route, aalOk) ==
    /\ u \in users \cup {Null}
    /\ LET user == IF u # Null /\ aal[u] # "none" THEN u ELSE Null
           cur == IF user = Null THEN "none" ELSE CurrentLevel(user)
           nxt == IF user = Null THEN "none" ELSE NextLevel(user)
       IN served' = [user |-> user, route |-> route, currentLevel |-> cur, nextLevel |-> nxt,
                     result |-> updateSession(user, route, aalOk, cur, nxt)]
    /\ UNCHANGED <<users, user_roles, jwt, projects, project_members, docVars, calls, started,
                   response, createdOk, versionsAdded, aal, enrolled, eval, nav>>

\* ------------------------------------------------------------------------
\* SpecSession: three accounts sign in and out, manage their factor and
\* request routes
\* ------------------------------------------------------------------------
NextSession ==
    \/ \E u \in UserIds, ok \in BOOLEAN : SignIn(u, ok)
    \/ \E u \in UserIds : SignOut(u)
    \/ \E u \in UserIds, ok \in BOOLEAN : VerifyMfa(u, ok)
    \/ \E u \in UserIds, ok \in BOOLEAN : EnrollMfa(u, ok)
    \/ \E u \in UserIds, ok \in BOOLEAN : DisableMfa(u, ok)
    \/ \E u \in UserIds \cup {Null}, r \in Routes, ok \in BOOLEAN : Request(u, r, ok)

SpecSession == InitMembers /\ [][NextSession]_vars

\* ------------------------------------------------------------------------
\* Evaluation of the row-level rules. A command on a table evaluates the
\* table's policies for that command; a policy calls helper functions and
\* may read tables itself; a read made by a policy, or by a function that
\* is not SECURITY DEFINER, is a SELECT that evaluates the policies of the
\* table it reads.
\* ------------------------------------------------------------------------
MaxDepth == 8          \* frames on the evaluation stack

Tables == {"projects", "project_members", "documents", "document_versions"}

\* the helper functions and the tables each reads
HelperFunctions ==
    {[name |-> "get_my_project_ids", tables |-> {"project_members"}],
     [name |-> "get_my_led_project_ids", tables |-> {"projects"}],
     [name |-> "get_my_led_document_ids", tables |-> {"documents", "projects"}]}

\* SECURITY DEFINER: the function reads its tables as their owner, without
\* the row-level rules
SecurityDefiner_Invoker(h) == FALSE
SecurityDefiner(h) == TRUE

\* the policies: the commands they apply to (FOR SELECT / FOR ALL), the
\* functions their conditions call and the tables their conditions read
RecreatedPolicies ==
    {[name |-> "Developers can view assigned projects", table |-> "projects",
      commands |-> {"read"}, functions |-> {"get_my_project_ids"}, tables |-> {}],
     [name |-> "Project leads can view assigned projects", table |-> "projects",
      commands |-> {"read"}, functions |-> {"get_my_project_ids"}, tables |-> {}],
     [name |-> "Project leads can manage members of their projects", table |-> "project_members",
      commands |-> Actions, functions |-> {"get_my_led_project_ids"}, tables |-> {}],
     [name |-> "Developers can view members of their projects", table |-> "project_members",
      commands |-> {"read"}, functions |-> {"get_my_project_ids"}, tables |-> {}],
     [name |-> "Project leads can manage documents of their projects", table |-> "documents",
      commands |-> Actions, functions |-> {"get_my_led_project_ids"}, tables |-> {}],
     [name |-> "Members can view documents of their projects", table |-> "documents",
      commands |-> {"read"}, functions |-> {"get_my_project_ids"}, tables |-> {}],
     [name |-> "Project leads can manage versions of their project docs", table |-> "document_versions",
      commands |-> Actions, functions |-> {"get_my_led_document_ids"}, tables |-> {}],
     [name |-> "Members can view versions of their project docs", table |-> "document_versions",
      commands |-> {"read"}, functions |-> {"get_my_project_ids"}, tables |-> {"documents"}]}

\* the policies that the patch leaves in place: the admin policy of every
\* table and the lead's policy on the projects it leads compare the token's
\* role and the row's own columns
BasePolicies ==
    {[name |-> "Admins have full access", table |-> t,
      commands |-> Actions, functions |-> {}, tables |-> {}] : t \in Tables}
    \cup {[name |-> "Project leads can manage their projects", table |-> "projects",
           commands |-> {"read", "update"}, functions |-> {}, tables |-> {}]}

Policies == RecreatedPolicies \cup BasePolicies

PoliciesFor(t, command) == {p \in Policies : p.table = t /\ command \in p.commands}

\* stack frames: a table being read (gated: under the row-level rules), a
\* policy whose condition is being evaluated, a function being executed;
\* todo holds what the frame has still to evaluate
TableFrame(t, command, gated) ==
    [kind |-> "table", name |-> t, gated |-> gated,
     todo |-> IF gated THEN {[kind |-> "policy", name |-> p.name, table |-> t] :
                                p \in PoliciesFor(t, command)}
              ELSE {}]
PolicyFrame(p) ==
    [kind |-> "policy", name |-> p.name, gated |-> TRUE,
     todo |-> {[kind |-> "function", name |-> f, table |-> ""] : f \in p.functions}
              \cup {[kind |-> "read", name |-> t, table |-> t] : t \in p.tables}]
FunctionFrame(h) ==
    [kind |-> "function", name |-> h.name, gated |-> ~ SecurityDefiner(h.name),
     todo |-> {[kind |-> "read", name |-> t, table |-> t] : t \in h.tables}]

Top == eval[Len(eval)]

\* a client issues a command on a table
StartQuery(t, command) ==
    /\ eval = <<>>
    /\ eval' = <<TableFrame(t, command, TRUE)>>
    /\ UNCHANGED <<users, user_roles, jwt, projects, project_members, docVars, calls, started,
                   response, createdOk, versionsAdded, sessionVars, nav>>

\* the top frame starts the next thing it has to evaluate
EvalEnter(item) ==
    /\ eval # <<>>
    /\ Len(eval) < MaxDepth
    /\ item \in Top.todo
    /\ LET rest == [eval EXCEPT ![Len(eval)].todo = @ \ {item}]
           frame == IF item.kind = "policy"
                    THEN PolicyFrame(CHOOSE p \in Policies :
                                        p.name = item.name /\ p.table = item.table)
                    ELSE IF item.kind = "function"
                    THEN FunctionFrame(CHOOSE h \in HelperFunctions : h.name = item.name)
                    ELSE TableFrame(item.name, "read", Top.kind = "policy" \/ Top.gated)
       IN eval' = Append(rest, frame)
    /\ UNCHANGED <<users, user_roles, jwt, projects, project_members, docVars, calls, started,
                   response, createdOk, versionsAdded, sessionVars, nav>>

\* the top frame has nothing left to evaluate and returns
EvalReturn ==
    /\ eval # <<>>
    /\ Top.todo = {}
    /\ eval' = SubSeq(eval, 1, Len(eval) - 1)
    /\ UNCHANGED <<users, user_roles, jwt, projects, project_members, docVars, calls, started,
                   response, createdOk, versionsAdded, sessionVars, nav>>

NextRules ==
    \/ \E t \in Tables, command \in Actions : StartQuery(t, command)
    \/ \E item \in (IF eval = <<>> THEN {} ELSE Top.todo) : EvalEnter(item)
    \/ EvalReturn

\* SpecRules: every command on every table, evaluated to the end
SpecRules == InitMembers /\ [][NextRules]_vars /\ WF_vars(NextRules)

\* ------------------------------------------------------------------------
\* SpecNavigate: a browser follows the redirects of the middleware while
\* the sessions stay as they are
\* ------------------------------------------------------------------------
MaxHops == 4           \* redirects followed in one navigation

\* the sessions a user can have: none, aal1 or aal2, with or without a
\* verified factor; a session at aal2 has one
SessionStates ==
    {ss \in [level : {"none", "aal1", "aal2"}, factor : BOOLEAN] :
        ss.level = "aal2" => ss.factor}

InitNavigate ==
    /\ users = UserIds
    /\ user_roles = {[user_id |-> "u1", role |-> "admin"],
                     [user_id |-> "u2", role |-> "project_lead"],
                     [user_id |-> "u3", role |-> "developer"]}
    /\ jwt = [u \in UserIds |-> RoleData(u)]
    /\ projects = [p \in ProjectIds |-> NoProject]
    /\ project_members = {}
    /\ documents = [d \in DocIds |-> NoDocument]
    /\ document_versions = <<>>
    /\ storage = {}
    /\ calls = [c \in Calls |-> IdleCall]
    /\ started = 0
    /\ response = "none"
    /\ createdOk = {}
    /\ versionsAdded = [d \in DocIds |-> 0]
    /\ \E f \in [UserIds -> SessionStates] :
          /\ aal = [u \in UserIds |-> f[u].level]
          /\ enrolled = {u \in UserIds : f[u].factor}
    /\ served = NoRequest
    /\ eval = <<>>
    /\ nav = NoNavigation

\* the browser of u (Null: a browser without cookies) asks for a route
Navigate(u, route) ==
    /\ nav.route = "" \/ nav.served
    /\ nav' = [user |-> IF u # Null /\ aal[u] # "none" THEN u ELSE Null,
               route |-> route, hops |-> 0, served |-> FALSE]
    /\ UNCHANGED <<users, user_roles, jwt, projects, project_members, docVars, calls, started,
                   response, createdOk, versionsAdded, sessionVars, eval>>

\* the middleware answers the request in progress: the route is served, or
\* the browser is redirected and asks for the route it was sent to
Follow(aalOk) ==
    /\ nav.route # "" /\ ~ nav.served
    /\ nav.hops < MaxHops
    /\ LET cur == IF nav.user = Null THEN "none" ELSE CurrentLevel(nav.user)
           nxt == IF nav.user = Null THEN "none" ELSE NextLevel(nav.user)
           result == updateSession(nav.user, nav.route, aalOk, cur, nxt)
       IN nav' = IF result = "next"
                 THEN [nav EXCEPT !.served = TRUE]
                 ELSE [nav EXCEPT !.route = result, !.hops = @ + 1]
    /\ UNCHANGED <<users, user_roles, jwt, projects, project_members, docVars, calls, started,
                   response, createdOk, versionsAdded, sessionVars, eval>>

NextNavigate ==
    \/ \E u \in UserIds \cup {Null}, r \in Routes : Navigate(u, r)
    \/ \E ok \in BOOLEAN : Follow(ok)

SpecNavigate == InitNavigate /\ [][NextNavigate]_vars /\ WF_vars(\E ok \in BOOLEAN : Follow(ok))

\* ------------------------------------------------------------------------
\* SpecUsers: accounts and roles change, tokens are issued again
\* ------------------------------------------------------------------------
\* the seed: an admin and a project lead who leads project 1
InitUsers ==
    /\ InitSessions
    /\ users = {"u1", "u2"}
    /\ user_roles = {[user_id |-> "u1", role |-> "admin"],
                     [user_id |-> "u2", role |-> "project_lead"]}
    /\ jwt = [u \in UserIds |-> RoleData(u)]
    /\ projects = [p \in ProjectIds |->
                     [st |-> "live", lead_id |-> "u2", status |-> "active", created_by |-> "u1"]]
    /\ project_members = {}
    /\ documents = [d \in DocIds |-> NoDocument]
    /\ document_versions = <<>>
    /\ storage = {}
    /\ calls = [c \in Calls |-> IdleCall]
    /\ started = 0
    /\ response = "none"
    /\ createdOk = {}
    /\ versionsAdded = [d \in DocIds |-> 0]

\* updateUserRole: the input parses or not; the outcomes of upsert, delete
\* and insert
RoleFaults == {<<TRUE, TRUE, TRUE, TRUE>>, <<FALSE, TRUE, TRUE, TRUE>>,
               <<TRUE, FALSE, TRUE, TRUE>>, <<TRUE, FALSE, FALSE, TRUE>>,
               <<TRUE, FALSE, TRUE, FALSE>>}

NextUsers ==
    \/ \E u \in Callers, r \in Roles, f \in Faults : CreateUser(u, r, f[1], f[2], f[3])
    \/ \E u \in Callers, t \in UserIds, r \in Roles, f \in RoleFaults :
          UpdateUserRole(u, t, r, f[1], f[2], f[3], f[4])
    \/ \E u \in Callers, t \in UserIds, ok \in BOOLEAN : DeleteUser(u, t, ok)
    \/ \E u \in UserIds, r \in Roles \cup {NoRole} : RefreshToken(u, r)

SpecUsers == InitUsers /\ [][NextUsers]_vars
\* ========================================================================
\* Properties
\* ========================================================================
AllIdle == \A c \in Calls : calls[c].pc = "idle"

\* C1: no two version rows of one document carry the same version number,
\* whatever the interleaving of the uploadNewVersion calls and whether their
\* file names are equal or different; a call that lost the race commits nothing
C1_UniqueVersionNumbers ==
    \A d \in DocIds : \A i, j \in 1 .. Len(VersionsOf(d)) :
        i # j => VersionsOf(d)[i].version # VersionsOf(d)[j].version

\* two calls read the same current_version, one has committed and the other,
\* having uploaded under a different file name, is about to commit
C1_Witness ==
    \E c \in Calls :
        /\ calls[c].pc = "nv_uploaded"
        /\ calls[c].ver \in VersionNumbers(calls[c].doc)

\* C2 (as claimed): with no request in flight, current_version is the highest
\* version row and the rows are numbered 1 .. current_version
C2_VersionsMatchCurrent ==
    AllIdle => \A d \in DocIds :
        DocumentExists(d) => VersionNumbers(d) = 1 .. documents[d].current_version

\* C3: after uploadDocument returned success and N uploadNewVersion calls
\* returned success on that document, current_version = N + 1 and there is
\* exactly one version row for each of 1 .. N + 1
C3_SequentialVersions ==
    \A d \in DocIds :
        (DocumentExists(d) /\ d \in createdOk) =>
            /\ documents[d].current_version = versionsAdded[d] + 1
            /\ VersionNumbers(d) = 1 .. (versionsAdded[d] + 1)
            /\ Len(VersionsOf(d)) = versionsAdded[d] + 1

C3_Witness ==
    \E d \in DocIds : DocumentExists(d) /\ d \in createdOk /\ versionsAdded[d] = 2 /\ AllIdle

\* C4: the commit of uploadNewVersion inserts the version row and sets
\* current_version together or does neither: version rows 2.. are exactly
\* 2 .. current_version in every state, and a commit step that fails leaves
\* the documents, the version rows and the stored objects as they were
C4_RowsFollowCurrent ==
    \A d \in DocIds :
        DocumentExists(d) =>
            {v \in VersionNumbers(d) : v >= 2} = 2 .. documents[d].current_version

C4_CommitStep ==
    \A c \in Calls :
        (calls[c].pc = "nv_uploaded" /\ calls'[c].pc = "idle") =>
            LET d == calls[c].doc
                v == calls[c].ver
            IN \/ /\ documents[d].current_version = v - 1
                  /\ documents'[d].current_version = v
                  /\ Len(document_versions') = Len(document_versions) + 1
                  /\ document_versions'[Len(document_versions')].version = v
                  /\ document_versions'[Len(document_versions')].document_id = d
                  /\ response' = "success"
               \/ /\ UNCHANGED <<documents, document_versions, storage>>
                  /\ response' = "error"

C4_AtomicCommit == [] C4_RowsFollowCurrent /\ [][C4_CommitStep]_vars

\* a commit failed after its upload: the document is at version N and an
\* object for version N + 1 is stored without a row
C4_Witness ==
    \E d \in DocIds, n \in FileNames :
        /\ DocumentExists(d) /\ AllIdle /\ response = "error"
        /\ StoragePath(documents[d].project_id, d, documents[d].current_version + 1, n) \in storage

\* C5: current_version of a document never decreases and changes only by
\* exactly +1, once for each uploadNewVersion that returns success
C5_Step ==
    \A d \in DocIds :
        (documents[d].st = "live" /\ documents'[d].st = "live") =>
            \/ /\ documents'[d].current_version = documents[d].current_version
               /\ versionsAdded'[d] = versionsAdded[d]
            \/ /\ documents'[d].current_version = documents[d].current_version + 1
               /\ versionsAdded'[d] = versionsAdded[d] + 1

C5_MonotonicVersion == [][C5_Step]_vars

\* a call whose version number was computed before another call committed
\* has tried to commit: its object is stored, its version number is taken
\* by the other call's row
C5_Witness ==
    \E d \in DocIds, n \in FileNames, v \in 2 .. MaxVersion :
        /\ DocumentExists(d) /\ AllIdle
        /\ v <= documents[d].current_version
        /\ StoragePath(documents[d].project_id, d, v, n) \in storage
        /\ \A i \in 1 .. Len(document_versions) :
              document_versions[i].storage_path # StoragePath(documents[d].project_id, d, v, n)
\* ------------------------------------------------------------------------
\* Access rules (SpecAuth)
\* ------------------------------------------------------------------------
Leads(u, p) == ProjectExists(p) /\ projects[p].lead_id = u

\* C6 (as claimed): a user without a role is denied every action on every
\* resource, and gets no project from getProject / getProjects
C6_NoRoleNoAccess ==
    \A u \in users :
        RoleData(u) = NoRole =>
            /\ \A a \in Actions, r \in Resources, p \in ProjectIds, d \in DocIds :
                  ~ Decide(u, a, r, p, d)
            /\ GetProjects(u) = {}

\* C7 (as claimed): a developer is denied every create, update and delete,
\* and no documents row is inserted by a developer
C7_DeveloperDenied ==
    \A u \in users :
        RoleData(u) = "developer" =>
            \A a \in {"create", "update", "delete"}, r \in Resources,
               p \in ProjectIds, d \in DocIds : ~ Decide(u, a, r, p, d)

C7_DeveloperStep ==
    \A d \in DocIds :
        (documents[d].st = "absent" /\ documents'[d].st = "live") =>
            RoleData(documents'[d].created_by) # "developer"

C7_DeveloperNeverWrites == [] C7_DeveloperDenied /\ [][C7_DeveloperStep]_vars

\* C8 (as claimed): a developer reads a project exactly when a membership
\* row for the pair exists, and never updates it
C8_DeveloperReadsIffMember ==
    \A u \in users, p \in ProjectIds :
        (RoleData(u) = "developer" /\ ProjectExists(p)) =>
            /\ Decide(u, "read", "projects", p, 0) <=> IsMember(u, p)
            /\ ~ Decide(u, "update", "projects", p, 0)

\* C9 (as claimed): for a project lead every action on the memberships,
\* documents and versions of a project is allowed exactly when the user is
\* the lead_id of that project
C9_LeadManagesOnlyLedProjects ==
    \A u \in users, p \in ProjectIds, a \in Actions :
        (RoleData(u) = "project_lead" /\ ProjectExists(p)) =>
            /\ Decide(u, a, "project_members", p, 0) <=> Leads(u, p)
            /\ Decide(u, a, "documents", p, 0) <=> Leads(u, p)
            /\ \A d \in DocIds :
                  (DocumentExists(d) /\ documents[d].project_id = p) =>
                      (Decide(u, a, "document_versions", p, d) <=> Leads(u, p))

\* C10: a project lead reads a project exactly when leading it or being a
\* member of it and updates it exactly when leading it; nobody but an admin
\* creates or deletes a project
C10_LeadDecisions ==
    /\ \A u \in users, p \in ProjectIds :
          (RoleData(u) = "project_lead" /\ ProjectExists(p)) =>
              /\ Decide(u, "read", "projects", p, 0) <=> (Leads(u, p) \/ IsMember(u, p))
              /\ p \in GetProjects(u) <=> (Leads(u, p) \/ IsMember(u, p))
              /\ Decide(u, "update", "projects", p, 0) <=> Leads(u, p)
    /\ \A u \in UserIds, p \in ProjectIds :
          (u \notin users \/ RoleData(u) # "admin") =>
              /\ ~ Decide(u, "create", "projects", p, 0)
              /\ ~ Decide(u, "delete", "projects", p, 0)

\* a step that changes the projects table is not a step of a caller the
\* rules deny
C10_ProjectStep ==
    \/ projects' = projects
    \/ \A u \in UserIds, p \in ProjectIds :
        /\ (u \notin users \/ RoleData(u) # "admin") =>
              /\ \A l \in UserIds \cup {Null} : ~ CreateProject(u, l, TRUE, TRUE)
              /\ ~ DeleteProject(u, p, TRUE)
        /\ (u \in users /\ RoleData(u) = "project_lead" /\ ~ Leads(u, p)) =>
              \A s \in Statuses \cup {""}, sl \in BOOLEAN, l \in UserIds \cup {Null} :
                    ~ UpdateProject(u, p, s, sl, l, TRUE)

C11_Reader(u, p) ==
    \/ RoleData(u) = "admin"
    \/ Leads(u, p)
    \/ IsMember(u, p) /\ RoleData(u) # NoRole

C11_Readers ==
    \A u \in users, d \in DocIds :
        DocumentExists(d) =>
            LET p == documents[d].project_id
            IN /\ d \in GetProjectDocuments(u, p) <=> C11_Reader(u, p)
               /\ Len(VersionsOf(d)) > 0 =>
                     (GetDocumentVersions(u, d) # {} <=> C11_Reader(u, p))

C11_CreateStep ==
    \A d \in DocIds :
        (documents[d].st = "absent" /\ documents'[d].st = "live") =>
            LET u == documents'[d].created_by
            IN RoleData(u) = "admin" \/ Leads(u, documents'[d].project_id)

C11_DocumentReaders == [] C11_Readers /\ [][C11_CreateStep]_vars
\* ------------------------------------------------------------------------
\* Accounts and roles (SpecUsers)
\* ------------------------------------------------------------------------
IsAdmin(u) == u \in users /\ RoleData(u) = "admin"

\* C12: a step that adds or removes an account or changes a role row is a
\* step of a caller who is an admin in the state it is taken from; createUser,
\* updateUserRole and deleteUser called by anyone else return an error and
\* leave the accounts and the role rows as they were
C12_Step ==
    \/ UNCHANGED <<users, user_roles>> /\ response' # "success"
    \/ /\ (users' # users \/ user_roles' # user_roles) => \E a \in users : IsAdmin(a)
       /\ \A u \in UserIds :
             ~ IsAdmin(u) =>
                /\ \A r \in Roles, f \in Faults : ~ CreateUser(u, r, f[1], f[2], f[3])
                /\ \A t \in UserIds, r \in Roles, f \in RoleFaults :
                      ~ UpdateUserRole(u, t, r, f[1], f[2], f[3], f[4])
                /\ \A t \in UserIds, ok \in BOOLEAN : ~ DeleteUser(u, t, ok)

C12_OnlyAdminsManageUsers == [][C12_Step]_vars

\* no account is an admin any more, and a caller was just refused
C12_Witness ==
    /\ users # {}
    /\ \A u \in users : ~ IsAdmin(u)
    /\ response = "Only admins can update roles"

\* C13 (as claimed): getUsers returns user data to an admin only
C13_GetUsersAdminOnly ==
    \A u \in UserIds : ~ IsAdmin(u) => GetUsers(u) = {}

\* C14: deleteUser with the caller's own id returns an error and leaves the
\* accounts and the role rows as they were, whoever the caller is; an account
\* that disappears is never the account of the caller of that step
C14_Step ==
    \A u \in UserIds :
        /\ \A ok \in BOOLEAN :
              DeleteUser(u, u, ok) =>
                  UNCHANGED <<users, user_roles>> /\ response' # "success"
        /\ (u \in users /\ u \notin users') =>
              \E a \in users \ {u} : IsAdmin(a) /\ DeleteUser(a, u, TRUE)

C14_NoSelfDeletion == [][C14_Step]_vars

\* an admin asked for the deletion of the own account and is still there
C14_Witness ==
    /\ response = "You cannot delete your own account"
    /\ \E a \in users : IsAdmin(a)

\* C15 (as claimed): every account has one role value, never two role rows
C15_ExactlyOneRole ==
    \A u \in users : Cardinality(RoleRowsOf(u)) <= 1

\* C16 (as claimed): the role the row-level rules decide a request under is
\* the role the caller has in user_roles
C16_DecidedUnderCurrentRole ==
    \A u \in users :
        Cardinality(RoleRowsOf(u)) = 1 => JwtRole(u) = RoleData(u)
\* ------------------------------------------------------------------------
\* Failure handling of the document actions (SpecDoc)
\* ------------------------------------------------------------------------
\* documents and versions are written by an admin or the project's lead
MayWriteDocuments(u, p) == u \in users /\ (RoleData(u) = "admin" \/ Leads(u, p))

\* C17 (as claimed): a document request of an actor who may not write the
\* project's documents changes no documents row, no version row and no stored
\* object at any of its steps, and returns an error
C17_Step ==
    \A c \in Calls :
        /\ (calls[c].pc = "idle" /\ calls'[c].pc = "ud_inserted") =>
              MayWriteDocuments(calls'[c].actor, documents'[calls'[c].doc].project_id)
        /\ (calls[c].pc # "idle" /\ calls'[c] # calls[c]
               /\ ~ MayWriteDocuments(calls[c].actor, documents[calls[c].doc].project_id)) =>
              /\ UNCHANGED docVars
              /\ calls'[c].pc = "idle" => response' # "success"

C17_DeniedNoEffect == [][C17_Step]_vars

\* C18 (as claimed): when the upload of uploadDocument fails the action
\* returns the upload error, and afterwards the documents row it inserted is
\* gone and there is no version row and no stored object of that document
C18_Step ==
    \A c \in Calls :
        (calls[c].pc = "ud_cleanup" /\ calls'[c].pc = "idle") =>
            LET d == calls[c].doc
            IN /\ response' = "Upload failed"
               /\ documents'[d].st # "live"
               /\ \A i \in 1 .. Len(document_versions') : document_versions'[i].document_id # d
               /\ \A path \in storage' : path[2] # d

C18_UploadFailureRollsBack == [][C18_Step]_vars

\* C19: uploadDocument passes validation exactly for a file of size > 0 and
\* <= 52428800 with a title of at least 2 characters, uploadNewVersion
\* exactly for a file of size > 0 and <= 52428800; a request that fails
\* validation returns an error and writes no row and no object (a step that
\* starts a request is a step that counts it in started)
C19_Accepts ==
    /\ \A t \in TitleLengths, s \in FileSizes :
          UploadDocumentValidation(t, s) = "" <=> (s > 0 /\ t >= 2 /\ s <= 52428800)
    /\ \A s \in FileSizes :
          UploadNewVersionValidation(s) = "" <=> (s > 0 /\ s <= 52428800)

C19_Step ==
    \/ started' = started
    \/ UNCHANGED <<docVars, calls>> /\ response' \notin {"success", "none"}
    \/ \A c \in {x \in Calls : calls'[x] # calls[x]}, u \in users, n \in FileNames,
          s \in FileSizes, ok \in BOOLEAN :
          /\ \A t \in {x \in TitleLengths : ~ (s > 0 /\ x >= 2 /\ s <= 52428800)} :
                ~ UploadDocumentBegin(c, u, 1, t, n, s, ok)
          /\ \A d \in {x \in DocIds : ~ (s > 0 /\ s <= 52428800)} :
                ~ UploadNewVersionBegin(c, u, d, n, s, ok)

C19_ValidationGate == [] C19_Accepts /\ [][C19_Step]_vars

\* a file of more than 50 MiB was refused and nothing has been written
C19_Witness ==
    /\ response = "File size must be less than 50MB"
    /\ \A d \in DocIds : documents[d].st = "absent"
    /\ document_versions = <<>> /\ storage = {}

\* C20: when the upload of uploadNewVersion fails the action returns the
\* upload error and the documents rows, the version rows and the stored
\* objects are as they were: current_version stays and no row is added
C20_Step ==
    \A c \in Calls :
        (calls[c].pc = "nv_fetched" /\ calls'[c].pc = "idle") =>
            /\ UNCHANGED docVars
            /\ response' = "Upload failed"

C20_UploadFailureChangesNothing == [][C20_Step]_vars

\* a document at version 1 after a failed upload of a new version: one
\* version row, one stored object
C20_Witness ==
    \E d \in DocIds :
        /\ AllIdle /\ response = "Upload failed"
        /\ DocumentExists(d) /\ d \in createdOk
        /\ documents[d].current_version = 1
        /\ VersionNumbers(d) = {1}
        /\ Cardinality(storage) = 1
\* C21 (as claimed): when deleteDocument returns success the documents row
\* and every version row of the document are gone, whatever part of the
\* stored objects the removal took away, and the removal step never ends the
\* request with an error
C21_Step ==
    \A c \in Calls :
        /\ calls[c].pc = "dd_read" => calls'[c].pc \in {"dd_read", "dd_removed"}
        /\ (calls[c].pc = "dd_removed" /\ calls'[c].pc = "idle" /\ response' = "success") =>
              LET d == calls[c].doc
              IN /\ documents'[d].st # "live"
                 /\ \A i \in 1 .. Len(document_versions') :
                       document_versions'[i].document_id # d

C21_DeleteRemovesRows == [][C21_Step]_vars
\* every membership, document and version row refers to a row that exists
ReferentialIntegrity ==
    /\ \A m \in project_members : ProjectExists(m.project_id) /\ m.user_id \in users
    /\ \A d \in DocIds : DocumentExists(d) => ProjectExists(documents[d].project_id)
    /\ \A i \in 1 .. Len(document_versions) : DocumentExists(document_versions[i].document_id)

RowsOfProject(p) ==
    <<{m \in project_members : m.project_id = p},
      {d \in DocIds : DocumentExists(d) /\ documents[d].project_id = p},
      SelectSeq(document_versions, LAMBDA r : documents[r.document_id].project_id = p)>>

\* C22 (as claimed): when deleteProject(p) returns success no membership,
\* document or version row of p remains and the rows of the other projects
\* are as they were; every row refers to rows that exist, in every state
C22_Step ==
    \A p \in ProjectIds :
        (response' = "success" /\ \E u \in Callers : DeleteProject(u, p, TRUE)) =>
            /\ ~ ProjectExists(p)'
            /\ RowsOfProject(p)' = <<{}, {}, <<>>>>
            /\ \A q \in ProjectIds \ {p} : RowsOfProject(q)' = RowsOfProject(q)

C22_DeleteProjectCascades == [] ReferentialIntegrity /\ [][C22_Step]_vars

\* the stored objects of the versions of the documents of project p
BlobsOfProject(p) ==
    {document_versions[i].storage_path : i \in
        {j \in 1 .. Len(document_versions) :
            documents[document_versions[j].document_id].project_id = p}}

\* C23 (as claimed): a step that deletes project p leaves no stored object
\* of a version of a document of p
C23_Step ==
    \A p \in ProjectIds :
        (ProjectExists(p) /\ ~ ProjectExists(p)') => BlobsOfProject(p) \cap storage' = {}

C23_DeleteProjectRemovesBlobs == [][C23_Step]_vars

\* C29 (as claimed): the status of a project changes only in a step of a
\* caller who is an admin; updateProject with a status, called by anyone
\* else, leaves the status as it was
C29_Step ==
    \A p \in ProjectIds :
        (ProjectExists(p) /\ ProjectExists(p)' /\ projects'[p].status # projects[p].status) =>
            /\ \E u \in Callers, s \in Statuses : UpdateProject(u, p, s, FALSE, Null, TRUE)
            /\ \A u \in Callers, s \in Statuses :
                  UpdateProject(u, p, s, FALSE, Null, TRUE) => IsAdmin(u)

C29_StatusChangesByAdminOnly == [][C29_Step]_vars
\* C24: no two membership rows have the same project and user, and
\* assignMember of a pair that has a row returns the conflict error and
\* leaves the memberships as they were
C24_Unique ==
    \A m, n \in project_members : (m.project_id = n.project_id /\ m.user_id = n.user_id) => m = n

C24_Step ==
    \A p \in ProjectIds, t \in UserIds :
        (IsMember(t, p) /\ \E u \in Callers \cup {Null}, ok \in BOOLEAN : AssignMember(u, p, t, ok)) =>
            /\ project_members' = project_members
            /\ response' \in {"This user is already assigned to this project", "error"}
            /\ (\E u \in Callers : RlsAllows(u, "create", "project_members", p, 0) /\ AssignMember(u, p, t, TRUE))
                  => response' = "This user is already assigned to this project"

C24_OneMembershipPerPair == [] C24_Unique /\ [][C24_Step]_vars

\* an assignMember of an assigned pair was answered with the conflict error
C24_Witness ==
    /\ response = "This user is already assigned to this project"
    /\ project_members # {}
\* the storage paths of the version rows
VersionPaths == {document_versions[i].storage_path : i \in 1 .. Len(document_versions)}

\* C25 (as claimed): getDocumentDownloadUrl yields a signed URL only for
\* the storage path of an existing version row, and only to a caller who
\* may read that row (an admin, the lead of the project, a member); every
\* other caller, an unauthenticated one included, gets an error
C25_DownloadOnlyReadableVersions ==
    \A u \in UserIds \cup {Null}, path \in storage \cup VersionPaths :
        GetDocumentDownloadUrl(u, path) = "url" =>
            \E i \in 1 .. Len(document_versions) :
                /\ document_versions[i].storage_path = path
                /\ RlsAllows(u, "read", "document_versions",
                             documents[document_versions[i].document_id].project_id,
                             document_versions[i].document_id)
\* the path the upload of request c writes to
UploadPath(c) ==
    StoragePath(documents[calls[c].doc].project_id, calls[c].doc, calls[c].ver, calls[c].file)

\* C26: an upload to a path that holds an object is rejected and leaves the
\* stored objects as they were; an upload that is accepted writes a path
\* that held nothing, so the object a version row refers to is never
\* written a second time
C26_Step ==
    \A c \in Calls :
        /\ (calls[c].pc = "ud_inserted" /\ calls'[c].pc # "ud_inserted") =>
              IF UploadPath(c) \in storage
              THEN calls'[c].pc = "ud_cleanup" /\ storage' = storage
              ELSE storage' \in {storage, storage \cup {UploadPath(c)}}
        /\ (calls[c].pc = "nv_fetched" /\ calls'[c].pc # "nv_fetched") =>
              IF UploadPath(c) \in storage
              THEN calls'[c].pc = "idle" /\ response' = "Upload failed" /\ storage' = storage
              ELSE storage' \in {storage, storage \cup {UploadPath(c)}}

C30_Step ==
    \A c \in Calls :
        /\ (calls[c].pc \in {"ud_inserted", "ud_uploaded", "ud_cleanup"}
              /\ calls'[c].pc = "idle" /\ response' # "success") =>
              LET d == calls[c].doc
              IN /\ ~ DocumentExists(d)'
                 /\ \A i \in 1 .. Len(document_versions') : document_versions'[i].document_id # d
                 /\ \A path \in storage' : path[2] # d
        /\ (calls' = calls /\ started' # started /\ response' # "success") =>
              UNCHANGED docVars

C30_FailedUploadLeavesNothing == [][C30_Step]_vars
\* C27 (as claimed): a caller without an authenticated user gets no data
\* from any action: no user list, no document list, no download URL
C27_UnauthenticatedGetsNothing ==
    \A u \in (UserIds \cup {Null}) \ users :
        /\ GetUsers(u) = {}
        /\ \A p \in ProjectIds : GetProjects(u) = {} /\ GetProjectDocuments(u, p) = {}
        /\ \A path \in storage : GetDocumentDownloadUrl(u, path) = "error"
\* C28 (as claimed): a route the middleware serves, other than the public
\* routes and the MFA page, is served to a request that has a user, and
\* never to a session whose user has a verified factor (nextLevel aal2)
\* while the session is below aal2, whatever the assurance-level lookup
\* returned
C28_ProtectedRoutesNeedMfa ==
    (served.result = "next" /\ served.route \in ProtectedRoutes) =>
        /\ served.user # Null
        /\ ~ (served.nextLevel = "aal2" /\ served.currentLevel # "aal2")
\* C31 (as claimed): when deleteDocument returns an error the document is
\* as it was: its documents row, its version rows and every stored object
\* those rows refer to are still there
C31_Step ==
    \A c \in Calls :
        (calls[c].pc = "dd_removed" /\ calls'[c].pc = "idle" /\ response' # "success") =>
            LET d == calls[c].doc
            IN /\ documents'[d] = documents[d]
               /\ document_versions' = document_versions
               /\ DocumentExists(d) =>
                     \A i \in 1 .. Len(VersionsOf(d)) : VersionsOf(d)[i].storage_path \in storage'

C31_FailedDeleteKeepsDocument == [][C31_Step]_vars
\* the tables on the stack that are read under the row-level rules
GatedTables == {i \in 1 .. Len(eval) : eval[i].kind = "table" /\ eval[i].gated}

C32_Acyclic ==
    /\ \A i, j \in GatedTables : eval[i].name = eval[j].name => i = j
    /\ Len(eval) < MaxDepth

Orphaned(path) ==
    /\ path \in storage
    /\ path \notin VersionPaths
    /\ \A c \in Calls : calls[c].pc \in {"nv_uploaded", "ud_uploaded"} => UploadPath(c) # path

\* C33 (as claimed): an object orphaned by a failed commit does not block
\* the document: a later uploadNewVersion with the same file name, by a
\* caller who may write the document and with the store answering, gets its
\* upload accepted and goes on to commit the next version
C33_Step ==
    \A c \in Calls :
        (/\ calls[c].pc = "nv_fetched"
         /\ Orphaned(UploadPath(c))
         /\ MayWriteDocuments(calls[c].actor, documents[calls[c].doc].project_id)
         /\ UploadNewVersionUpload(c, TRUE)) =>
            calls'[c].pc = "nv_uploaded"

C33_OrphanDoesNotBlock == [][C33_Step]_vars
\* C34 (as claimed): createUser is all-or-nothing: a step that adds an
\* account is a createUser that returns success and leaves the new account
\* with exactly one role row; a createUser that returns an error adds no
\* account
C34_Step ==
    \A u \in UserIds :
        (u \notin users /\ u \in users') =>
            /\ response' = "success"
            /\ Cardinality({r \in user_roles' : r.user_id = u}) = 1
            /\ \E caller \in UserIds, role \in Roles :
                  /\ CreateUser(caller, role, TRUE, TRUE, TRUE)
                  /\ [user_id |-> u, role |-> role] \in user_roles'

C34_CreateUserAllOrNothing == [][C34_Step]_vars
\* C35 (as claimed): an updateUserRole that returns an error leaves the
\* role rows as they were, and no updateUserRole leaves a user who had a
\* role without one (updateUserRole is the request that is counted in
\* started and keeps the accounts)
C35_Step ==
    (started' # started /\ users' = users) =>
        /\ response' # "success" => user_roles' = user_roles
        /\ \A t \in users : RoleRowsOf(t) # {} => RoleRowsOf(t)' # {}

C35_FailedRoleUpdateKeepsRole == [][C35_Step]_vars
OtherProjects(u) ==
    [st : {"live", "deleted"}, lead_id : (UserIds \cup {Null}) \ {u}, status : Statuses,
     created_by : {u, Null}]
OtherMembers(u, q) ==
    SUBSET {[project_id |-> q, user_id |-> w, id |-> 1] : w \in UserIds \ {u}}

\* C37: what a user who is no admin gets from getProjects() depends only
\* on the projects the user leads or is a member of: next to the projects
\* of the state, a further project that the user neither leads nor is a
\* member of, whatever its row and its other members, changes nothing
C37_ListIgnoresOtherProjects ==
    \A u \in users :
        UserRole(u) # "admin" =>
            LET q == Cardinality(ProjectIds) + 1
            IN \A row \in OtherProjects(u), ms \in OtherMembers(u, q) :
                  GetProjectsIn(u, projects @@ (q :> row), project_members \cup ms)
                      = GetProjects(u)

\* a user who is no admin is listed the project it was assigned to, and
\* another one is listed nothing
C37_Witness ==
    \E u \in users :
        /\ UserRole(u) # "admin"
        /\ GetProjects(u) = ProjectIds
        /\ \A p \in ProjectIds : projects[p].lead_id # u /\ IsMember(u, p)
        /\ \E w \in users : UserRole(w) # "admin" /\ GetProjects(w) = {}
\* C38: with the sessions fixed, a navigation to any route is served after
\* at most two redirects, whatever the assurance-level lookups return: the
\* redirects among /login, /dashboard and /mfa-verify do not loop
C38_AtMostTwoRedirects ==
    /\ [] (nav.hops <= 2)
    /\ ((nav.route # "" /\ ~ nav.served) ~> nav.served)

\* a session with a verified factor, not yet at aal2, that asked for /login
\* is served the MFA page after two redirects
C38_Witness ==
    /\ nav.user # Null /\ nav.user \in enrolled /\ aal[nav.user] = "aal1"
    /\ nav.hops = 2 /\ nav.served /\ nav.route = "/mfa-verify"
====
